---- MODULE Spec2Model ----
(***************************************************************************)
(* Model of the todo list service (internal/todolist), its file storage    *)
(* (internal/storage), the task model (internal/models) and the command    *)
(* line (internal/cli, cmd/todolist).                                      *)
(*                                                                         *)
(* A string is the sequence of its characters, so that strings.TrimSpace   *)
(* and the JSON encoding of a string are computed.  A time.Time is a       *)
(* record of its wall clock instant and of whether it carries a monotonic  *)
(* reading; the JSON encoding keeps the instant only.  An error is the     *)
(* chain of its wrappers, outermost first, ending in the sentinel; nil is  *)
(* <<>>.                                                                   *)
(***************************************************************************)
EXTENDS Integers, Sequences, FiniteSets, TLC

VARIABLES
    list,      \* TodoList.list: the in-memory *models.TaskList
    up,        \* TRUE when NewTodoList returned a service
    boot,      \* the backing file the first service was built from
    file,      \* content of the backing file fs.filepath
    tmp,       \* content of the temporary file fs.filepath + ".tmp"
    clock,     \* the wall clock read by time.Now()
    call,      \* the last service call: operation, arguments, results
    pre,       \* the in-memory list when the last call began
    preFile,   \* the backing file when the last call began
    assigned,  \* ids of the tasks returned by successful AddTask calls, in call order
    deleted,   \* ids whose DeleteTask succeeded
    snap,      \* the slice a caller keeps from ListTasks
    saving,    \* <<l>> when the last call handed the list l to Save, <<>> otherwise
    saveErr,   \* the error that Save returned to the last call, <<>> for nil or no Save
    writers,   \* processes that run one command each on the same backing file
    args       \* <<os.Args[1:]>> of the process when a command line started it, else <<>>

vars == <<list, up, boot, file, tmp, clock, call, pre, preFile, assigned, deleted, snap,
          saving, saveErr, writers, args>>

----------------------------------------------------------------------------
(* Bounds of the model *)

\* AddTask calls that read the clock and reach Save, over a behaviour that
\* starts without a backing file
MaxAdds == 3

\* the same over a behaviour that starts from an existing backing file
MaxFileAdds == 1

(* Inputs *)

Descriptions == { <<>>, <<"\t", " ">>, <<" ", "b", " ">> }

\* ids below, among and above those a behaviour assigns
IdArgs == (-1) .. (MaxAdds + 1)

FileIDs == 0 .. 1

FileNextIDs == 0 .. 2

----------------------------------------------------------------------------
(* internal/errors *)

ErrEmptyDescription == "task description cannot be empty"
ErrTaskNotFound == "task not found"
ErrInvalidID == "invalid task ID"
ErrStorageRead == "failed to read from storage"
ErrStorageWrite == "failed to write to storage"
ErrInvalidJSON == "invalid JSON format"
ErrInvalidCommand == "invalid command"

NoError == <<>>

\* WrapWithContext formatting the cause with %v: the chain is lost
WrapWithContext_Opaque(err, context) ==
    IF err = NoError THEN NoError ELSE <<context>>

\* fmt.Errorf("%s: %w", context, err): the context in front of the chain
WrapWithContext(err, context) ==
    IF err = NoError THEN NoError ELSE <<context>> \o err

WrapStorageReadError(err, filepath) ==
    IF err = NoError THEN NoError ELSE <<"failed to read from storage at">> \o err

WrapStorageWriteError(err, filepath) ==
    IF err = NoError THEN NoError ELSE <<"failed to write to storage at">> \o err

WrapJSONError(err, filepath) ==
    IF err = NoError THEN NoError ELSE <<"invalid JSON format in">> \o err

\* fmt.Errorf("command '%s' failed: %w", command, err)
WrapCommandError(err, command) ==
    IF err = NoError THEN NoError ELSE <<command>> \o err

\* errors.Is(err, target): target is somewhere in the chain
Is(err, target) == \E i \in 1..Len(err) : err[i] = target

\* errors.Join(sentinel, err): the sentinel and the cause from the OS
Join(sentinel, cause) == <<sentinel, cause>>

----------------------------------------------------------------------------
(* strings.TrimSpace *)

IsSpace(c) == c \in {" ", "\t", "\n", "\r"}

RECURSIVE TrimLeft(_)
TrimLeft(s) ==
    IF s # <<>> /\ IsSpace(Head(s)) THEN TrimLeft(Tail(s)) ELSE s

RECURSIVE TrimRight(_)
TrimRight(s) ==
    IF s # <<>> /\ IsSpace(s[Len(s)]) THEN TrimRight(SubSeq(s, 1, Len(s) - 1)) ELSE s

TrimSpace(s) == TrimRight(TrimLeft(s))

----------------------------------------------------------------------------
(* internal/models and time.Time *)

\* the wall clock at the next reading: later than at the last one
Tick(c) == c + 1

\* time.Now(): the wall clock instant with a monotonic reading
Now(wall) == [wall |-> wall, mono |-> TRUE]

\* Time.Equal: the same instant, whatever the monotonic reading
TimeEqual(a, b) == a.wall = b.wall

Task(id, description, completed, createdAt) ==
    [ID |-> id, Description |-> description, Completed |-> completed,
     CreatedAt |-> createdAt]

\* Tasks is the slice's elements, TasksNil whether the slice is nil
TaskList(tasks, tasksNil, nextID) ==
    [Tasks |-> tasks, TasksNil |-> tasksNil, NextID |-> nextID]

----------------------------------------------------------------------------
(* encoding/json on models.TaskList *)

\* Time.MarshalJSON: the RFC 3339 text of the instant
FormatTime(t) == t.wall

\* Time.UnmarshalJSON: the instant, without monotonic reading
ParseTime(s) == [wall |-> s, mono |-> FALSE]

\* A Go string holds any bytes.  InvalidByte is a byte that is no UTF-8
\* encoding of a character, Replacement is the character U+FFFD.
InvalidByte == "0xFF"
Replacement == "U+FFFD"

\* encodeState.string (escapeHTML on): the text of the JSON string, one
\* unit for a character written as it is or for an escape; a byte that is
\* not valid UTF-8 is written as the escape of U+FFFD
EncodeChar(c) ==
    IF c = "<" THEN "\\u003c"
    ELSE IF c = "\t" THEN "\\t"
    ELSE IF c = InvalidByte THEN "\\ufffd"
    ELSE c

EncodeString(str) == [i \in 1..Len(str) |-> EncodeChar(str[i])]

\* unquote: escapes give their character, a byte that is not valid UTF-8
\* gives U+FFFD
DecodeChar(u) ==
    IF u = "\\u003c" THEN "<"
    ELSE IF u = "\\t" THEN "\t"
    ELSE IF u = "\\ufffd" THEN Replacement
    ELSE IF u = InvalidByte THEN Replacement
    ELSE u

DecodeString(text) == [i \in 1..Len(text) |-> DecodeChar(text[i])]

EncodeTask(t) ==
    [id |-> t.ID, description |-> EncodeString(t.Description),
     completed |-> t.Completed, created_at |-> FormatTime(t.CreatedAt)]

DecodeTask(j) ==
    Task(j.id, DecodeString(j.description), j.completed, ParseTime(j.created_at))

\* json.MarshalIndent(list, "", "  "): a nil slice is written as null
Marshal(l) ==
    [kind |-> "json",
     tasksNull |-> l.TasksNil,
     tasks |-> [i \in 1..Len(l.Tasks) |-> EncodeTask(l.Tasks[i])],
     next_id |-> l.NextID]

\* json.Unmarshal(data, &taskList): null leaves the slice nil
Unmarshal(data) ==
    TaskList([i \in 1..Len(data.tasks) |-> DecodeTask(data.tasks[i])],
             data.tasksNull, data.next_id)

----------------------------------------------------------------------------
(* internal/storage: FileStorage *)

Absent == [kind |-> "absent"]
Corrupt == [kind |-> "corrupt"]
Unreadable == [kind |-> "unreadable"]

\* EmptyTaskList with NextID left at its zero value
EmptyTaskList_ZeroNextID == TaskList(<<>>, FALSE, 0)

\* &models.TaskList{Tasks: []models.Task{}, NextID: 1}
EmptyTaskList == TaskList(<<>>, FALSE, 1)

\* Load returning the parsed list as json.Unmarshal left it
NormalizeTasks_Keep(taskList) == taskList

\* if taskList.Tasks == nil { taskList.Tasks = []models.Task{} }
NormalizeTasks(taskList) ==
    IF taskList.TasksNil THEN TaskList(<<>>, FALSE, taskList.NextID) ELSE taskList

\* FileStorage.Load: the list and the error
Load(f) ==
    IF f.kind = "absent" THEN
        [list |-> EmptyTaskList, err |-> NoError]
    ELSE IF f.kind = "unreadable" THEN
        [list |-> TaskList(<<>>, TRUE, 0),
         err |-> WrapStorageReadError(Join(ErrStorageRead, "read error"), "filepath")]
    ELSE IF f.kind = "corrupt" THEN
        [list |-> TaskList(<<>>, TRUE, 0),
         err |-> WrapJSONError(Join(ErrInvalidJSON, "syntax error"), "filepath")]
    ELSE
        [list |-> NormalizeTasks(Unmarshal(f)), err |-> NoError]

\* Save that renames a temporary file it found instead of writing its data
SaveOutcomes_StaleTemp(f, t, l) ==
    LET data == Marshal(l)
        werr == WrapStorageWriteError(Join(ErrStorageWrite, "write error"), "filepath")
    IN  { [file |-> IF t.kind = "absent" THEN data ELSE t, tmp |-> Absent, err |-> NoError],
          [file |-> f, tmp |-> t, err |-> werr] }

\* FileStorage.Save: every outcome of the write to the temporary file and of
\* the rename, as the files afterwards and the error returned.
\* json.MarshalIndent does not fail on a TaskList.  os.WriteFile fails before
\* creating the temporary file, or after truncating it and writing a part of
\* the data; os.Rename fails and os.Remove deletes the temporary file.
SaveOutcomes(f, t, l) ==
    LET data == Marshal(l)
        werr == WrapStorageWriteError(Join(ErrStorageWrite, "write error"), "filepath")
        rerr == WrapStorageWriteError(Join(ErrStorageWrite, "rename error"), "filepath")
    IN  { [file |-> data, tmp |-> Absent, err |-> NoError],
          [file |-> f, tmp |-> t, err |-> werr],
          [file |-> f, tmp |-> Corrupt, err |-> werr],
          [file |-> f, tmp |-> Absent, err |-> rerr] }

\* Save writing the data to fs.filepath itself
CrashOutcomes_InPlace(f, t, l) ==
    { [file |-> f, tmp |-> t],
      [file |-> Corrupt, tmp |-> t],
      [file |-> Marshal(l), tmp |-> t] }

\* FileStorage.Save cut short by the death of the process: before
\* os.WriteFile creates the temporary file, while it writes it, between
\* os.WriteFile and os.Rename, and once os.Rename has replaced the backing
\* file, which it does in one step
CrashOutcomes(f, t, l) ==
    { [file |-> f, tmp |-> t],
      [file |-> f, tmp |-> Corrupt],
      [file |-> f, tmp |-> Marshal(l)],
      [file |-> Marshal(l), tmp |-> Absent] }

----------------------------------------------------------------------------
(* internal/todolist: TodoList *)

\* the loop without its break: the last index whose task has the id
FindTask_Last(tasks, id) ==
    IF \E i \in 1..Len(tasks) : tasks[i].ID = id
    THEN CHOOSE i \in 1..Len(tasks) :
            /\ tasks[i].ID = id
            /\ \A j \in (i + 1)..Len(tasks) : tasks[j].ID # id
    ELSE 0

\* the loop "for i, task := range tl.list.Tasks": the first index whose task
\* has the id, 0 when there is none (the code's -1)
FindTask(tasks, id) ==
    IF \E i \in 1..Len(tasks) : tasks[i].ID = id
    THEN CHOOSE i \in 1..Len(tasks) :
            /\ tasks[i].ID = id
            /\ \A j \in 1..(i - 1) : tasks[j].ID # id
    ELSE 0

\* RemoveAt taking taskIndex as one past the element
RemoveAt_OffByOne(tasks, i) ==
    SubSeq(tasks, 1, i) \o SubSeq(tasks, i + 2, Len(tasks))

\* append(tl.list.Tasks[:taskIndex], tl.list.Tasks[taskIndex+1:]...)
RemoveAt(tasks, i) ==
    SubSeq(tasks, 1, i - 1) \o SubSeq(tasks, i + 1, Len(tasks))

\* append(tl.list.Tasks[:taskIndex], append([]models.Task{deletedTask}, tl.list.Tasks[taskIndex:]...)...)
InsertAt(tasks, i, t) ==
    SubSeq(tasks, 1, i - 1) \o <<t>> \o SubSeq(tasks, i, Len(tasks))

\* IsBlank without strings.TrimSpace
IsBlank_NoTrim(description) == description = <<>>

\* "if strings.TrimSpace(description) == """
IsBlank(description) == TrimSpace(description) = <<>>

\* InvalidID with "id < 0"
InvalidID_Negative(id) == id < 0

\* "if id <= 0"
InvalidID(id) == id <= 0

\* NewTask storing the trimmed description
NewTask_Trimmed(nextID, description, now) ==
    Task(nextID, TrimSpace(description), FALSE, now)

\* models.Task{ID: tl.list.NextID, Description: description, Completed: false, CreatedAt: time.Now()}
NewTask(nextID, description, now) == Task(nextID, description, FALSE, now)

\* AppendTask without "tl.list.NextID++"
AppendTask_NoIncrement(l, task) == TaskList(Append(l.Tasks, task), FALSE, l.NextID)

\* AppendTask putting the new task in front of the others
AppendTask_AtFront(l, task) == TaskList(<<task>> \o l.Tasks, FALSE, l.NextID + 1)

\* tl.list.Tasks = append(tl.list.Tasks, task); tl.list.NextID++
AppendTask(l, task) == TaskList(Append(l.Tasks, task), FALSE, l.NextID + 1)

\* AddRollback without "tl.list.NextID--"
AddRollback_KeepNextID(l) ==
    TaskList(SubSeq(l.Tasks, 1, Len(l.Tasks) - 1), l.TasksNil, l.NextID)

\* tl.list.Tasks = tl.list.Tasks[:len(tl.list.Tasks)-1]; tl.list.NextID--
AddRollback(l) ==
    TaskList(SubSeq(l.Tasks, 1, Len(l.Tasks) - 1), l.TasksNil, l.NextID - 1)

\* MarkCompleted setting the flag of every task up to taskIndex
MarkCompleted_UpTo(l, taskIndex) ==
    [l EXCEPT !.Tasks = [i \in 1..Len(l.Tasks) |->
                            IF i <= taskIndex THEN [l.Tasks[i] EXCEPT !.Completed = TRUE]
                            ELSE l.Tasks[i]]]

\* MarkCompleted inverting the flag
MarkCompleted_Toggle(l, taskIndex) ==
    [l EXCEPT !.Tasks[taskIndex].Completed = ~l.Tasks[taskIndex].Completed]

\* tl.list.Tasks[taskIndex].Completed = true
MarkCompleted(l, taskIndex) == [l EXCEPT !.Tasks[taskIndex].Completed = TRUE]

\* tl.list.Tasks[taskIndex].Completed = false
CompleteRollback(l, taskIndex) == [l EXCEPT !.Tasks[taskIndex].Completed = FALSE]

\* RemoveTask that also frees the id of the last task for the next AddTask
RemoveTask_RecycleID(l, taskIndex) ==
    [l EXCEPT !.Tasks = RemoveAt(l.Tasks, taskIndex),
              !.NextID = IF taskIndex = Len(l.Tasks) THEN l.Tasks[taskIndex].ID ELSE @]

\* tl.list.Tasks = append(tl.list.Tasks[:taskIndex], tl.list.Tasks[taskIndex+1:]...)
RemoveTask(l, taskIndex) == [l EXCEPT !.Tasks = RemoveAt(l.Tasks, taskIndex)]

\* DeleteRollback appending deletedTask at the end
DeleteRollback_AtEnd(l, taskIndex, deletedTask) ==
    [l EXCEPT !.Tasks = Append(l.Tasks, deletedTask)]

\* DeleteRollback putting back a task with the trimmed description
DeleteRollback_Trimmed(l, taskIndex, deletedTask) ==
    [l EXCEPT !.Tasks = InsertAt(l.Tasks, taskIndex,
                            [deletedTask EXCEPT !.Description = TrimSpace(@)])]

\* the rollback of DeleteTask: deletedTask back at taskIndex
DeleteRollback(l, taskIndex, deletedTask) ==
    [l EXCEPT !.Tasks = InsertAt(l.Tasks, taskIndex, deletedTask)]

\* ListTasks: make([]models.Task, len(tl.list.Tasks)); copy(tasks, tl.list.Tasks)
CopyTasks(tasks) == [i \in 1..Len(tasks) |-> tasks[i]]

\* A slice in the hands of a caller: whether the caller holds one, whether
\* it is nil, whether its backing array is the one of tl.list.Tasks, the
\* elements now seen through it, and the elements the caller expects there
\* (those returned, with the caller's own writes).
NoSnap == [held |-> FALSE, nil |-> FALSE, shared |-> FALSE, cells |-> <<>>, ret |-> <<>>]

\* ListTasks returning tl.list.Tasks itself
SnapshotOf_Alias(tasks) ==
    [held |-> TRUE, nil |-> FALSE, shared |-> TRUE, cells |-> tasks, ret |-> tasks]

\* the slice ListTasks returns: made by make, never nil, on an array of its own
SnapshotOf(tasks) ==
    [held |-> TRUE, nil |-> FALSE, shared |-> FALSE,
     cells |-> CopyTasks(tasks), ret |-> CopyTasks(tasks)]

\* The handlers write the elements of tl.list.Tasks in place (the flag of
\* CompleteTask, the shift of DeleteTask's append and its rollback): once
\* the array holds tasks in its first cells, a slice sharing the array sees
\* them in the cells it covers and keeps what lies beyond.
SeenThrough(s, tasks) ==
    IF s.held /\ s.shared
    THEN [s EXCEPT !.cells = [i \in 1..Len(s.cells) |->
                                IF i <= Len(tasks) THEN tasks[i] ELSE s.cells[i]]]
    ELSE s

\* append(tl.list.Tasks, task) giving tasks: within the cells a sharing
\* slice covers the array has room and is written in place; beyond them the
\* append writes in place or moves tl.list.Tasks to a new array, as the
\* capacity decides.
AppendSeen(s, tasks) ==
    IF ~(s.held /\ s.shared) THEN {s}
    ELSE IF Len(tasks) <= Len(s.cells) THEN {SeenThrough(s, tasks)}
    ELSE {s, [s EXCEPT !.shared = FALSE]}

\* the record of a call: op and its arguments id and description, the error
\* returned, the task returned (<<>> for nil, <<task>> otherwise), the slice
\* returned, and the number of Save calls issued
Call(op, id, description, err, ret, out, saves) ==
    [op |-> op, id |-> id, description |-> description, err |-> err,
     ret |-> ret, out |-> out, saves |-> saves]

\* NewTodoList whose error the caller ignores
NewTodoList_Lenient(f) ==
    LET r == Load(f)
    IN  [up |-> TRUE,
         list |-> NormalizeTasks(r.list),
         err |-> WrapWithContext(r.err, "failed to initialize todo list")]

\* NewTodoList: one Load; the service exists when it succeeds
NewTodoList(f) ==
    LET r == Load(f)
    IN  [up |-> r.err = NoError,
         list |-> r.list,
         err |-> WrapWithContext(r.err, "failed to initialize todo list")]

AddTask ==
    /\ up
    /\ \E description \in Descriptions :
        IF IsBlank(description) THEN
            /\ call' = Call("AddTask", 0, description, <<ErrEmptyDescription>>, <<>>, <<>>, 0)
            /\ saving' = <<>>
            /\ saveErr' = NoError
            /\ UNCHANGED <<list, file, tmp, clock, assigned, snap>>
        ELSE
            /\ clock < (IF boot.kind = "absent" THEN MaxAdds ELSE MaxFileAdds)
            /\ LET now == Tick(clock)
                    task == NewTask(list.NextID, description, Now(now))
                    added == AppendTask(list, task)
               IN  \E o \in SaveOutcomes(file, tmp, added), s \in AppendSeen(snap, added.Tasks) :
                        /\ clock' = now
                        /\ snap' = s
                        /\ saving' = <<added>>
                        /\ saveErr' = o.err
                        /\ file' = o.file
                        /\ tmp' = o.tmp
                        /\ IF o.err # NoError THEN
                              /\ list' = AddRollback(added)
                              /\ call' = Call("AddTask", 0, description,
                                              WrapWithContext(o.err, "failed to save task after adding"),
                                              <<>>, <<>>, 1)
                              /\ UNCHANGED assigned
                           ELSE
                              /\ list' = added
                              /\ call' = Call("AddTask", 0, description, NoError, <<task>>, <<>>, 1)
                              /\ assigned' = Append(assigned, task.ID)
    /\ pre' = list
    /\ preFile' = file
    /\ UNCHANGED <<up, boot, deleted, writers, args>>

\* ListTasks, the caller being left with the slice kept
ListTasksKeeping(kept) ==
    /\ up
    /\ call' = Call("ListTasks", 0, <<>>, NoError, <<>>, CopyTasks(list.Tasks), 0)
    /\ snap' = kept
    /\ saving' = <<>>
    /\ saveErr' = NoError
    /\ pre' = list
    /\ preFile' = file
    /\ UNCHANGED <<list, up, boot, file, tmp, clock, assigned, deleted, writers, args>>

\* the caller uses the result at once and keeps no slice of it
ListTasks == ListTasksKeeping(snap)

\* the caller keeps the slice returned
KeepListTasks == ListTasksKeeping(SnapshotOf(list.Tasks))

\* the caller writes an element of the slice it keeps; a write into an
\* array shared with tl.list.Tasks is a write into the service's task
CallerWrites ==
    /\ up
    /\ snap.held
    /\ \E i \in 1..Len(snap.cells) :
        LET written == [snap.cells[i] EXCEPT !.Completed = ~snap.cells[i].Completed]
        IN  /\ snap' = [snap EXCEPT !.cells[i] = written, !.ret[i] = written]
            /\ list' = IF snap.shared /\ i <= Len(list.Tasks)
                       THEN [list EXCEPT !.Tasks[i] = written]
                       ELSE list
    /\ UNCHANGED <<up, boot, file, tmp, clock, call, pre, preFile, assigned, deleted, saving,
                   saveErr, writers, args>>

CompleteTask ==
    /\ up
    /\ \E id \in IdArgs :
        LET taskIndex == FindTask(list.Tasks, id)
        IN  IF InvalidID(id) THEN
                /\ call' = Call("CompleteTask", id, <<>>, <<ErrInvalidID>>, <<>>, <<>>, 0)
                /\ saving' = <<>>
                /\ saveErr' = NoError
                /\ UNCHANGED <<list, file, tmp, snap>>
            ELSE IF taskIndex = 0 THEN
                /\ call' = Call("CompleteTask", id, <<>>, <<ErrTaskNotFound>>, <<>>, <<>>, 0)
                /\ saving' = <<>>
                /\ saveErr' = NoError
                /\ UNCHANGED <<list, file, tmp, snap>>
            ELSE
                LET marked == MarkCompleted(list, taskIndex)
                IN  \E o \in SaveOutcomes(file, tmp, marked) :
                        /\ saving' = <<marked>>
                        /\ saveErr' = o.err
                        /\ file' = o.file
                        /\ tmp' = o.tmp
                        /\ IF o.err # NoError THEN
                              /\ list' = CompleteRollback(marked, taskIndex)
                              /\ snap' = SeenThrough(SeenThrough(snap, marked.Tasks),
                                                     CompleteRollback(marked, taskIndex).Tasks)
                              /\ call' = Call("CompleteTask", id, <<>>,
                                              WrapWithContext(o.err, "failed to save task after completing"),
                                              <<>>, <<>>, 1)
                           ELSE
                              /\ list' = marked
                              /\ snap' = SeenThrough(snap, marked.Tasks)
                              /\ call' = Call("CompleteTask", id, <<>>, NoError, <<>>, <<>>, 1)
    /\ pre' = list
    /\ preFile' = file
    /\ UNCHANGED <<up, boot, clock, assigned, deleted, writers, args>>

DeleteTask ==
    /\ up
    /\ \E id \in IdArgs :
        LET taskIndex == FindTask(list.Tasks, id)
        IN  IF InvalidID(id) THEN
                /\ call' = Call("DeleteTask", id, <<>>, <<ErrInvalidID>>, <<>>, <<>>, 0)
                /\ saving' = <<>>
                /\ saveErr' = NoError
                /\ UNCHANGED <<list, file, tmp, deleted, snap>>
            ELSE IF taskIndex = 0 THEN
                /\ call' = Call("DeleteTask", id, <<>>, <<ErrTaskNotFound>>, <<>>, <<>>, 0)
                /\ saving' = <<>>
                /\ saveErr' = NoError
                /\ UNCHANGED <<list, file, tmp, deleted, snap>>
            ELSE
                LET deletedTask == list.Tasks[taskIndex]
                    removed == RemoveTask(list, taskIndex)
                IN  \E o \in SaveOutcomes(file, tmp, removed) :
                        /\ saving' = <<removed>>
                        /\ saveErr' = o.err
                        /\ file' = o.file
                        /\ tmp' = o.tmp
                        /\ IF o.err # NoError THEN
                              /\ list' = DeleteRollback(removed, taskIndex, deletedTask)
                              /\ snap' = SeenThrough(SeenThrough(snap, removed.Tasks),
                                                     DeleteRollback(removed, taskIndex, deletedTask).Tasks)
                              /\ call' = Call("DeleteTask", id, <<>>,
                                              WrapWithContext(o.err, "failed to save task after deleting"),
                                              <<>>, <<>>, 1)
                              /\ UNCHANGED deleted
                           ELSE
                              /\ list' = removed
                              /\ snap' = SeenThrough(snap, removed.Tasks)
                              /\ call' = Call("DeleteTask", id, <<>>, NoError, <<>>, <<>>, 1)
                              /\ deleted' = deleted \cup {id}
    /\ pre' = list
    /\ preFile' = file
    /\ UNCHANGED <<up, boot, clock, assigned, writers, args>>

\* cmd/todolist main: the process exits and the next invocation builds a
\* new service from the same backing file
StartedWith(a) ==
    LET s == NewTodoList(file)
    IN  /\ args' = a
        /\ up' = s.up
        /\ list' = s.list
        /\ call' = Call("NewTodoList", 0, <<>>, s.err, <<>>, <<>>, 0)
        /\ pre' = s.list
        /\ preFile' = file
        /\ snap' = NoSnap
        /\ saving' = <<>>
        /\ saveErr' = NoError
        /\ UNCHANGED <<boot, file, tmp, clock, assigned, deleted, writers>>

\* the next invocation, of which the model keeps no command line
Restart == StartedWith(args)

\* what the shell reports of a process that was killed
Killed == "signal: killed"

\* the calls that reach Save in the present state, each with the list it
\* hands to Save and the clock after it
SavingCalls ==
    { [op |-> "AddTask", id |-> 0, description |-> d, clock |-> Tick(clock),
       list |-> AppendTask(list, NewTask(list.NextID, d, Now(Tick(clock))))] :
        d \in { x \in Descriptions : ~IsBlank(x) /\ clock < MaxAdds } }
    \cup
    { [op |-> "CompleteTask", id |-> id, description |-> <<>>, clock |-> clock,
       list |-> MarkCompleted(list, FindTask(list.Tasks, id))] :
        id \in { x \in IdArgs : ~InvalidID(x) /\ FindTask(list.Tasks, x) # 0 } }
    \cup
    { [op |-> "DeleteTask", id |-> id, description |-> <<>>, clock |-> clock,
       list |-> RemoveTask(list, FindTask(list.Tasks, id))] :
        id \in { x \in IdArgs : ~InvalidID(x) /\ FindTask(list.Tasks, x) # 0 } }

\* the process dies inside the Save of a call: the files are as the crash
\* left them, the memory of the process is gone and the call returns
\* nothing
Crash ==
    /\ up
    /\ \E c \in SavingCalls :
        \E o \in CrashOutcomes(file, tmp, c.list) :
            /\ file' = o.file
            /\ tmp' = o.tmp
            /\ clock' = c.clock
            /\ call' = Call(c.op, c.id, c.description, <<Killed>>, <<>>, <<>>, 1)
            /\ saving' = <<c.list>>
            /\ saveErr' = NoError
    /\ up' = FALSE
    /\ list' = TaskList(<<>>, TRUE, 0)
    /\ pre' = list
    /\ preFile' = file
    /\ snap' = NoSnap
    /\ UNCHANGED <<boot, assigned, deleted, writers, args>>

----------------------------------------------------------------------------
(* Specifications *)

\* no process beside the one of the service
NoWriters == [proc |-> <<>>, returned |-> <<>>]

\* the state after NewTodoList on the backing file f, the wall clock at c,
\* beside the processes w
InitOf(f, c, w) ==
    LET s == NewTodoList(f)
    IN  /\ file = f
        /\ boot = f
        /\ tmp = Absent
        /\ up = s.up
        /\ list = s.list
        /\ clock = c
        /\ call = Call("NewTodoList", 0, <<>>, s.err, <<>>, <<>>, 0)
        /\ pre = s.list
        /\ preFile = f
        /\ assigned = <<>>
        /\ deleted = {}
        /\ snap = NoSnap
        /\ saving = <<>>
        /\ saveErr = NoError
        /\ writers = w
        /\ args = <<>>

InitAt(f, c) == InitOf(f, c, NoWriters)

InitWith(f) == InitAt(f, 0)

\* the backing file does not exist when the first service is built
Init == InitWith(Absent)

Next ==
    \/ AddTask
    \/ ListTasks
    \/ CompleteTask
    \/ DeleteTask
    \/ Restart

Spec == Init /\ [][Next]_vars

\* the backing files a first service may find: none, an unreadable or
\* unparsable one, or any JSON object of the TaskList shape
FileTasks ==
    { [id |-> i, description |-> <<"a">>, completed |-> c, created_at |-> 0] :
        i \in FileIDs, c \in {FALSE} }

FileSeqs ==
    {<<>>} \cup { <<a>> : a \in FileTasks } \cup { <<a, b>> : a, b \in FileTasks }

InitFiles ==
    {Absent, Corrupt, Unreadable}
    \cup { [kind |-> "json", tasksNull |-> TRUE, tasks |-> <<>>, next_id |-> n] :
             n \in FileNextIDs }
    \cup { [kind |-> "json", tasksNull |-> FALSE, tasks |-> ts, next_id |-> n] :
             ts \in FileSeqs, n \in FileNextIDs }

InitFile == \E f \in InitFiles : InitWith(f)

SpecFile == InitFile /\ [][Next]_vars

\* a caller in the process of the service, as the tests are, that keeps
\* and writes the slices ListTasks returns; the clock starts one reading
\* later, which leaves one AddTask fewer
InitSnapshot == InitAt(Absent, 1)

NextSnapshot ==
    \/ AddTask
    \/ KeepListTasks
    \/ CallerWrites
    \/ CompleteTask
    \/ DeleteTask

SpecSnapshot == InitSnapshot /\ [][NextSnapshot]_vars

\* processes that may die inside Save; the clock starts two readings later
InitCrash == InitAt(Absent, 2)

NextCrash ==
    \/ Next
    \/ Crash

SpecCrash == InitCrash /\ [][NextCrash]_vars

----------------------------------------------------------------------------
(* FileStorage on its own: Save and Load of any TaskList *)

StoredDescriptions == { <<>>, <<"a", "<">>, <<"\t", Replacement>>, <<InvalidByte>> }

StoredTimes == { [wall |-> 0, mono |-> m] : m \in BOOLEAN }

StoredTasks ==
    { Task(id, d, c, t) :
        id \in {-1, 2}, d \in StoredDescriptions, c \in BOOLEAN, t \in StoredTimes }

\* the lists a caller may hand to Save: a nil slice, no task, one, two
TaskLists ==
    { TaskList(<<>>, TRUE, n) : n \in {0, 3} }
    \cup { TaskList(ts, FALSE, n) :
             ts \in {<<>>} \cup { <<a>> : a \in StoredTasks }
                          \cup { <<a, b>> : a, b \in StoredTasks },
             n \in {0, 3} }

\* backing files not written by Save: escapes and raw bytes in the strings
FoundTasks ==
    { [id |-> i, description |-> d, completed |-> FALSE, created_at |-> 0] :
        i \in FileIDs,
        d \in { <<"a">>, <<"\\u003c", "<">>, <<"\\ufffd">>, <<InvalidByte>> } }

FoundFiles ==
    { [kind |-> "json", tasksNull |-> TRUE, tasks |-> <<>>, next_id |-> 0] }
    \cup { [kind |-> "json", tasksNull |-> FALSE, tasks |-> ts, next_id |-> n] :
             ts \in { <<a>> : a \in FoundTasks } \cup { <<a, b>> : a, b \in FoundTasks },
             n \in {0, 3} }

\* a caller of FileStorage with the list l in hand and the backing file f
InitStorage(l, f, op) ==
    /\ list = l
    /\ file = f
    /\ boot = f
    /\ tmp = Absent
    /\ up = FALSE
    /\ clock = 0
    /\ call = Call(op, 0, <<>>, NoError, <<>>, <<>>, 0)
    /\ pre = l
    /\ preFile = f
    /\ assigned = <<>>
    /\ deleted = {}
    /\ snap = NoSnap
    /\ saving = <<>>
    /\ saveErr = NoError
    /\ writers = NoWriters
    /\ args = <<>>

InitRoundTrip ==
    \/ \E l \in TaskLists : InitStorage(l, Absent, "Given")
    \/ \E f \in FoundFiles : InitStorage(TaskList(<<>>, TRUE, 0), f, "Found")

\* fs.Save(list) of the list in hand
FileStorageSave ==
    /\ call.op \in {"Given", "Load", "Save"}
    /\ \E o \in SaveOutcomes(file, tmp, list) :
        /\ file' = o.file
        /\ tmp' = o.tmp
        /\ call' = Call("Save", 0, <<>>, o.err, <<>>, <<>>, 1)
        /\ saveErr' = o.err
    /\ saving' = <<list>>
    /\ pre' = list
    /\ preFile' = file
    /\ UNCHANGED <<list, up, boot, clock, assigned, deleted, snap, writers, args>>

\* fs.Load() of a file found or of the file a Save has just written
FileStorageLoad ==
    /\ call.op = "Found" \/ (call.op = "Save" /\ call.err = NoError)
    /\ LET r == Load(file)
       IN  /\ list' = r.list
           /\ call' = Call("Load", 0, <<>>, r.err, <<>>, <<>>, 0)
    /\ pre' = list
    /\ preFile' = file
    /\ UNCHANGED <<up, boot, file, tmp, clock, assigned, deleted, snap, saving, saveErr,
                   writers, args>>

NextRoundTrip ==
    \/ FileStorageSave
    \/ FileStorageLoad

SpecRoundTrip == InitRoundTrip /\ [][NextRoundTrip]_vars

----------------------------------------------------------------------------
(* Two invocations of main at the same time on one backing file *)

Procs == 1 .. 2

\* the backing files the two processes load: none, or one task
SharedFiles ==
    {Absent}
    \cup { f \in InitFiles : /\ f.kind = "json"
                             /\ ~f.tasksNull
                             /\ Len(f.tasks) = 1
                             /\ f.tasks[1].id = 1
                             /\ f.next_id = 2 }

\* A process: where it is in its command, the list it hands to Save, the
\* error its Save returned, and the place of the file its descriptor is
\* open on: the temporary path, the backing path once another process has
\* renamed that file, none once it was removed or replaced.
Writer(pc, l, fd, err) == [pc |-> pc, list |-> l, fd |-> fd, err |-> err]

\* both have called NewTodoList on the file f
TwoWriters(f) ==
    [proc |-> [p \in Procs |-> Writer("loaded", Load(f).list, "none", NoError)],
     returned |-> <<>>]

InitTwoWriters == \E f \in SharedFiles : InitOf(f, 0, TwoWriters(f))

\* os.Rename that leaves an existing backing file in place
Renamed_IfAbsent(f, t) == IF f.kind = "absent" THEN t ELSE f

\* os.Rename(tempFile, fs.filepath): the backing path names the temporary file
Renamed(f, t) == t

\* the descriptors of the other processes once the file at the temporary
\* path has moved to the backing path
AfterRename(w, p) ==
    [q \in Procs |->
        IF q = p THEN w[q]
        ELSE IF w[q].fd = "tmp" THEN [w[q] EXCEPT !.fd = "file"]
        ELSE IF w[q].fd = "file" THEN [w[q] EXCEPT !.fd = "gone"]
        ELSE w[q]]

\* the same once os.Remove has deleted the temporary path
AfterRemove(w, p) ==
    [q \in Procs |->
        IF q # p /\ w[q].fd = "tmp" THEN [w[q] EXCEPT !.fd = "gone"] ELSE w[q]]

\* Write of data from offset 0 into a file: over the data another process
\* wrote there since the truncation, a longer rest of that data stays
WrittenOver(content, data) ==
    IF content.kind = "json" /\ content # data THEN {data, Corrupt} ELSE {data}

Returns(w, p, err) ==
    [proc |-> [w.proc EXCEPT ![p] = Writer("returned", w.proc[p].list, "none", err)],
     returned |-> Append(w.returned, p)]

\* the handler of the command up to tl.storage.Save(tl.list)
WriterMutates(p) ==
    /\ writers.proc[p].pc = "loaded"
    /\ \E c \in SavingCalls :
        writers' = [writers EXCEPT !.proc[p] = Writer("marshalled", c.list, "none", NoError)]
    /\ UNCHANGED <<list, up, boot, file, tmp, clock, call, pre, preFile, assigned, deleted,
                   snap, saving, saveErr, args>>

\* os.WriteFile: OpenFile(tempFile, O_WRONLY|O_CREATE|O_TRUNC): the file at
\* the temporary path is created or emptied, or the open fails
WriterOpens(p) ==
    /\ writers.proc[p].pc = "marshalled"
    /\ \/ /\ tmp' = Corrupt
          /\ writers' = [writers EXCEPT !.proc[p].pc = "opened", !.proc[p].fd = "tmp"]
       \/ /\ tmp' = tmp
          /\ writers' = Returns(writers, p,
                WrapStorageWriteError(Join(ErrStorageWrite, "write error"), "filepath"))
    /\ UNCHANGED <<list, up, boot, file, clock, call, pre, preFile, assigned, deleted,
                   snap, saving, saveErr, args>>

\* os.WriteFile: Write and Close on the descriptor, or a failed Write that
\* leaves a part of the data
WriterWrites(p) ==
    /\ writers.proc[p].pc = "opened"
    /\ LET w == writers.proc[p]
           data == Marshal(w.list)
           werr == WrapStorageWriteError(Join(ErrStorageWrite, "write error"), "filepath")
       IN  \E ok \in BOOLEAN :
           \E content \in (IF ~ok THEN {Corrupt}
                           ELSE IF w.fd = "tmp" THEN WrittenOver(tmp, data)
                           ELSE IF w.fd = "file" THEN WrittenOver(file, data)
                           ELSE {data}) :
                /\ tmp' = IF w.fd = "tmp" THEN content ELSE tmp
                /\ file' = IF w.fd = "file" THEN content ELSE file
                /\ writers' = IF ok
                              THEN [writers EXCEPT !.proc[p].pc = "written",
                                                   !.proc[p].fd = "none"]
                              ELSE Returns(writers, p, werr)
    /\ UNCHANGED <<list, up, boot, clock, call, pre, preFile, assigned, deleted,
                   snap, saving, saveErr, args>>

\* os.Rename(tempFile, fs.filepath), with os.Remove(tempFile) when it fails;
\* it fails when no file is at the temporary path
WriterRenames(p) ==
    /\ writers.proc[p].pc = "written"
    /\ LET rerr == WrapStorageWriteError(Join(ErrStorageWrite, "rename error"), "filepath")
       IN  IF tmp.kind = "absent" THEN
                /\ writers' = Returns(writers, p, rerr)
                /\ UNCHANGED <<file, tmp>>
           ELSE
                \/ /\ file' = Renamed(file, tmp)
                   /\ tmp' = Absent
                   /\ writers' = Returns([writers EXCEPT !.proc = AfterRename(@, p)], p, NoError)
                \/ /\ file' = file
                   /\ tmp' = Absent
                   /\ writers' = Returns([writers EXCEPT !.proc = AfterRemove(@, p)], p, rerr)
    /\ UNCHANGED <<list, up, boot, clock, call, pre, preFile, assigned, deleted,
                   snap, saving, saveErr, args>>

NextTwoWriters ==
    \E p \in Procs :
        \/ WriterMutates(p)
        \/ WriterOpens(p)
        \/ WriterWrites(p)
        \/ WriterRenames(p)

SpecTwoWriters == InitTwoWriters /\ [][NextTwoWriters]_vars

----------------------------------------------------------------------------
(* internal/cli and cmd/todolist: the command line *)

\* strings.ToLower, on the letters of the command names
ToLowerChar(c) ==
    CASE c = "A" -> "a" [] c = "D" -> "d" [] c = "E" -> "e" [] c = "N" -> "n"
      [] c = "O" -> "o" [] OTHER -> c

ToLower(s) == [i \in 1..Len(s) |-> ToLowerChar(s[i])]

Digits == <<"0", "1", "2", "3", "4", "5", "6", "7", "8", "9">>

IsDigit(c) == \E i \in 1..Len(Digits) : Digits[i] = c

DigitValue(c) == (CHOOSE i \in 1..Len(Digits) : Digits[i] = c) - 1

RECURSIVE DecimalValue(_)
DecimalValue(s) ==
    IF s = <<>> THEN 0
    ELSE 10 * DecimalValue(SubSeq(s, 1, Len(s) - 1)) + DigitValue(s[Len(s)])

\* an Atoi that returns 0 for a text that is no number, as C's atoi
Atoi_NoSyntaxError(s) ==
    [n |-> IF s # <<>> /\ \A i \in 1..Len(s) : IsDigit(s[i]) THEN DecimalValue(s) ELSE 0,
     err |-> NoError]

\* strconv.Atoi: an optional sign and at least one decimal digit, nothing
\* else (texts short enough not to overflow)
Atoi(s) ==
    LET signed == s # <<>> /\ s[1] \in {"+", "-"}
        body == IF signed THEN Tail(s) ELSE s
    IN  IF body = <<>> \/ \E i \in 1..Len(body) : ~IsDigit(body[i])
        THEN [n |-> 0, err |-> <<"invalid syntax">>]
        ELSE [n |-> IF signed /\ s[1] = "-" THEN 0 - DecimalValue(body)
                    ELSE DecimalValue(body),
              err |-> NoError]

\* strings.Join(elems, " ")
RECURSIVE JoinArgs(_)
JoinArgs(elems) ==
    IF elems = <<>> THEN <<>>
    ELSE IF Len(elems) = 1 THEN elems[1]
    ELSE elems[1] \o <<" ">> \o JoinArgs(Tail(elems))

CmdAdd == <<"a", "d", "d">>
CmdList == <<"l", "i", "s", "t">>
CmdDone == <<"d", "o", "n", "e">>
CmdDelete == <<"d", "e", "l", "e", "t", "e">>
CmdHelp == <<"h", "e", "l", "p">>

Command(name, cmdArgs) == [Name |-> name, Args |-> cmdArgs]

Parsed(cmd) == [cmd |-> <<cmd>>, err |-> NoError]

NotParsed(err) == [cmd |-> <<>>, err |-> err]

\* ParseCommand(args): the command, or the error
ParseCommand(a) ==
    IF Len(a) = 0 THEN NotParsed(<<ErrInvalidCommand>>)
    ELSE LET cmdName == ToLower(a[1])
         IN  IF cmdName = CmdAdd THEN
                 IF Len(a) < 2
                 THEN NotParsed(WrapCommandError(<<ErrInvalidCommand>>,
                                                 "add command requires a description"))
                 ELSE Parsed(Command("add", <<JoinArgs(Tail(a))>>))
             ELSE IF cmdName = CmdList THEN Parsed(Command("list", <<>>))
             ELSE IF cmdName = CmdDone THEN
                 IF Len(a) # 2
                 THEN NotParsed(WrapCommandError(<<ErrInvalidCommand>>,
                                                 "done command requires a task ID"))
                 ELSE IF Atoi(a[2]).err # NoError
                 THEN NotParsed(WrapCommandError(<<ErrInvalidCommand>>,
                                                 "task ID must be a valid number"))
                 ELSE Parsed(Command("done", <<a[2]>>))
             ELSE IF cmdName = CmdDelete THEN
                 IF Len(a) # 2
                 THEN NotParsed(WrapCommandError(<<ErrInvalidCommand>>,
                                                 "delete command requires a task ID"))
                 ELSE IF Atoi(a[2]).err # NoError
                 THEN NotParsed(WrapCommandError(<<ErrInvalidCommand>>,
                                                 "task ID must be a valid number"))
                 ELSE Parsed(Command("delete", <<a[2]>>))
             ELSE IF cmdName = CmdHelp THEN Parsed(Command("help", <<>>))
             ELSE NotParsed(<<ErrInvalidCommand>>)

\* main: without arguments the command is help
MainArgs(a) == IF Len(a) = 0 THEN <<CmdHelp>> ELSE a

\* the command lines given to the program
CommandLines ==
    { <<>>, <<CmdHelp>>, <<CmdList>>, <<CmdList, <<"x">>>>, << <<"r", "m">> >>, << <<>> >>,
      <<CmdAdd>>, << <<"A", "d", "d">>, <<" ", "b", " ">> >>, <<CmdAdd, <<>>, <<"b">>, <<>>>>,
      <<CmdAdd, <<>>>>, <<CmdAdd, <<"\t", " ">>>>,
      <<CmdDone>>, <<CmdDone, <<"1">>>>, << <<"D", "O", "N", "E">>, <<"+", "1">> >>,
      <<CmdDone, <<"x">>>>, <<CmdDone, <<"1">>, <<"2">>>>, <<CmdDone, <<"-", "1">>>>,
      <<CmdDone, <<>>>>, <<CmdDone, <<"1", "x">>>>,
      <<CmdDelete>>, <<CmdDelete, <<"1">>>>, <<CmdDelete, <<"0">>>>, <<CmdDelete, <<"-">>>>,
      <<CmdDelete, <<"1">>, <<"1">>>>, <<CmdDelete, <<"2">>>> }

\* main: a process is started with a command line and builds its service
Started == \E a \in CommandLines : StartedWith(<<a>>)

\* a command that reaches no operation of the service: rejected by
\* ParseCommand with err, or help
NoServiceCall(op, err) ==
    /\ call' = Call(op, 0, <<>>, err, <<>>, <<>>, 0)
    /\ saving' = <<>>
    /\ saveErr' = NoError
    /\ pre' = list
    /\ preFile' = file
    /\ UNCHANGED <<list, up, boot, file, tmp, clock, assigned, deleted, snap, writers, args>>

\* main after NewTodoList: ParseCommand, then ExecuteCommand, which calls
\* the operation of the service with the arguments of the command
RunCommand ==
    /\ up
    /\ args # <<>>
    /\ call.op = "NewTodoList"
    /\ LET parsed == ParseCommand(MainArgs(args[1]))
       IN  IF parsed.err # NoError THEN NoServiceCall("ParseCommand", parsed.err)
           ELSE LET cmd == parsed.cmd[1]
                IN  IF cmd.Name = "add" THEN AddTask /\ call'.description = cmd.Args[1]
                    ELSE IF cmd.Name = "list" THEN ListTasks
                    ELSE IF cmd.Name = "done"
                    THEN CompleteTask /\ call'.id = Atoi(cmd.Args[1]).n
                    ELSE IF cmd.Name = "delete"
                    THEN DeleteTask /\ call'.id = Atoi(cmd.Args[1]).n
                    ELSE NoServiceCall("help", NoError)

InitCommand == InitAt(Absent, 1)

NextCommand ==
    \/ Started
    \/ RunCommand

SpecCommand == InitCommand /\ [][NextCommand]_vars

----------------------------------------------------------------------------
(* Vocabulary of the properties *)

\* the characters strings.TrimSpace removes among those of Descriptions
Whitespace == {" ", "\t", "\n", "\r"}

OnlyWhitespace(s) == \A i \in 1..Len(s) : s[i] \in Whitespace

\* two tasks with equal fields, the timestamps compared as instants
TaskEqual(a, b) ==
    /\ a.ID = b.ID
    /\ a.Description = b.Description
    /\ a.Completed = b.Completed
    /\ TimeEqual(a.CreatedAt, b.CreatedAt)

TaskListEqual(a, b) ==
    /\ a.NextID = b.NextID
    /\ Len(a.Tasks) = Len(b.Tasks)
    /\ \A i \in 1..Len(a.Tasks) : TaskEqual(a.Tasks[i], b.Tasks[i])

HasID(tasks, id) == \E i \in 1..Len(tasks) : tasks[i].ID = id

Mutating == call.op \in {"AddTask", "CompleteTask", "DeleteTask"}

\* the last call reached its Save and the Save failed
SaveFailed == Mutating /\ call.saves = 1 /\ call.err # NoError

AddSucceeded == call.op = "AddTask" /\ call.err = NoError

AddSaveFailed ==
    call.op = "AddTask" /\ ~OnlyWhitespace(call.description) /\ call.err # NoError

\* the collection and the backing file are as they were when the call began
CallChangedNothing == list = pre /\ file = preFile

----------------------------------------------------------------------------
(* C1 *)

\* C1: after every call the in-memory collection equals the collection Load
\* returns from the backing file, and a mutating call either applied to
\* memory and file or left both as they were before the call.
C1_MemoryEqualsDisk ==
    up =>
        /\ Load(file).err = NoError
        /\ TaskListEqual(list, Load(file).list)
        /\ Mutating => (call.err = NoError \/ CallChangedNothing)

----------------------------------------------------------------------------
(* C2 *)

\* C2: when CompleteTask finds the task and Save fails, the call returns a
\* storage error and the collection, the task's completed flag included, is
\* what it was before the call, whether the flag was false or true.
C2_CompleteRollbackRestoresFlag ==
    (call.op = "CompleteTask" /\ SaveFailed) =>
        /\ Is(call.err, ErrStorageWrite)
        /\ list = pre

----------------------------------------------------------------------------
(* C3 *)

\* C3: when AddTask with a non-blank description fails in Save, it returns a
\* storage error and no task and the collection is what it was before the
\* call; a successful AddTask that follows receives the id the failed call
\* would have used.
C3_AddRollback ==
    /\ [](AddSaveFailed =>
            /\ Is(call.err, ErrStorageWrite)
            /\ call.ret = <<>>
            /\ list = pre)
    /\ [][(AddSaveFailed /\ call'.op = "AddTask" /\ call'.err = NoError)
            => call'.ret[1].ID = pre.NextID]_vars

C3_Witness ==
    /\ AddSaveFailed
    /\ Len(pre.Tasks) >= 1

----------------------------------------------------------------------------
(* C4 *)

\* C4: when DeleteTask finds the task and Save fails, it returns a storage
\* error and the task sequence and next_id are those before the call: the
\* task is back at its index with its fields, at the first, a middle and
\* the last position.
C4_DeleteRollback ==
    (call.op = "DeleteTask" /\ SaveFailed) =>
        /\ Is(call.err, ErrStorageWrite)
        /\ list = pre

\* a failed delete of the middle one of three tasks
C4_Witness ==
    /\ call.op = "DeleteTask"
    /\ SaveFailed
    /\ Len(pre.Tasks) = 3
    /\ pre.Tasks[2].ID = call.id

\* the same at the first and at the last position
C4_ReachFirst ==
    call.op = "DeleteTask" /\ SaveFailed /\ Len(pre.Tasks) = 3 /\ pre.Tasks[1].ID = call.id

C4_ReachLast ==
    call.op = "DeleteTask" /\ SaveFailed /\ Len(pre.Tasks) = 3 /\ pre.Tasks[3].ID = call.id

----------------------------------------------------------------------------
(* C5 *)

\* C5: from an absent backing file, the ids returned by successful AddTask
\* calls are strictly increasing in call order, hence pairwise distinct, and
\* no two tasks of the collection share an id.
C5_IdsDistinctIncreasing ==
    /\ \A i, j \in 1..Len(assigned) : i < j => assigned[i] < assigned[j]
    /\ \A i, j \in 1..Len(list.Tasks) : i # j => list.Tasks[i].ID # list.Tasks[j].ID

\* three ids assigned, with a delete and a failed Save on the way
C5_Witness ==
    /\ Len(assigned) = 3
    /\ deleted # {}
    /\ SaveFailed

----------------------------------------------------------------------------
(* C6 *)

----------------------------------------------------------------------------
(* C7 *)

\* the first service was built from an absent file or from a file whose
\* next_id is greater than the id of every task in it
SoundBoot ==
    \/ boot.kind = "absent"
    \/ /\ boot.kind = "json"
       /\ \A i \in 1..Len(boot.tasks) : boot.tasks[i].id < boot.next_id

AddGrowsByOneWithFreshId ==
    /\ Len(CopyTasks(list.Tasks)) = Len(CopyTasks(pre.Tasks)) + 1
    /\ ~HasID(pre.Tasks, call.ret[1].ID)

\* C7 as stated: from an absent file or any backing file Load accepts, a
\* successful AddTask makes ListTasks one longer and returns a task whose id
\* no task of the collection had before the call.
C7_AddTaskFreshId == AddSucceeded => AddGrowsByOneWithFreshId

\* C7 amended: the same for a service initialised from an absent file or
\* from a backing file whose next_id is greater than every task id in it.
C7_AddTaskFreshIdSoundFile == (AddSucceeded /\ SoundBoot) => AddGrowsByOneWithFreshId

C7_Witness ==
    /\ AddSucceeded
    /\ boot.kind = "json"
    /\ Len(boot.tasks) = 2
    /\ SoundBoot

----------------------------------------------------------------------------
(* C8 *)

\* C8: a successful AddTask(description) appends one task at the end with
\* id the next_id before the call, completed false and the untrimmed
\* description, adds 1 to next_id, leaves the other tasks as they were and
\* returns a task equal to the appended one.
C8_AddTaskEffect ==
    AddSucceeded =>
        /\ Len(call.ret) = 1
        /\ list.Tasks = Append(pre.Tasks, call.ret[1])
        /\ call.ret[1].ID = pre.NextID
        /\ call.ret[1].Completed = FALSE
        /\ call.ret[1].Description = call.description
        /\ list.NextID = pre.NextID + 1

\* a description with surrounding whitespace added after another task
C8_Witness ==
    /\ AddSucceeded
    /\ Len(pre.Tasks) >= 1
    /\ call.description = <<" ", "b", " ">>

----------------------------------------------------------------------------
(* C9 *)

\* C9: AddTask of a description of whitespace only, the empty one included,
\* fails with EmptyDescription, returns no task, leaves the task sequence
\* and next_id as they were and issues no Save: the backing file and the
\* temporary file are untouched.
C9_BlankRejected ==
    /\ []((call.op = "AddTask" /\ OnlyWhitespace(call.description)) =>
            /\ Is(call.err, ErrEmptyDescription)
            /\ call.ret = <<>>
            /\ call.saves = 0
            /\ CallChangedNothing)
    /\ [][(call'.op = "AddTask" /\ OnlyWhitespace(call'.description))
            => (list' = list /\ file' = file /\ tmp' = tmp)]_vars

\* a whitespace description, not the empty one, refused on a non-empty list
C9_Witness ==
    /\ call.op = "AddTask"
    /\ call.description = <<"\t", " ">>
    /\ Len(list.Tasks) >= 1

----------------------------------------------------------------------------
(* C10 *)

IdCall == call.op \in {"CompleteTask", "DeleteTask"}

\* C10: CompleteTask and DeleteTask with id <= 0 fail with InvalidID, with a
\* positive id no task has fail with TaskNotFound, and in both cases the
\* task sequence and next_id are unchanged and no Save is issued.
C10_BadIdRejected ==
    /\ []((IdCall /\ call.id <= 0) =>
            /\ Is(call.err, ErrInvalidID)
            /\ call.saves = 0
            /\ CallChangedNothing)
    /\ []((IdCall /\ call.id > 0 /\ ~HasID(pre.Tasks, call.id)) =>
            /\ Is(call.err, ErrTaskNotFound)
            /\ call.saves = 0
            /\ CallChangedNothing)
    /\ [][(/\ call'.op \in {"CompleteTask", "DeleteTask"}
           /\ (call'.id <= 0 \/ ~HasID(list.Tasks, call'.id)))
            => (list' = list /\ file' = file /\ tmp' = tmp)]_vars

\* id 0 refused on a non-empty list
C10_Witness ==
    /\ call.op = "DeleteTask"
    /\ call.id = 0
    /\ Len(list.Tasks) >= 1

----------------------------------------------------------------------------
(* C11 *)

CompleteSucceeded == call.op = "CompleteTask" /\ call.err = NoError

\* C11: a successful CompleteTask(id) sets completed on a task that had the
\* id and changes nothing else: that task keeps its id, description and
\* created_at, every other task is as it was, and so are the order, the
\* length and next_id.
C11_CompleteFrame ==
    CompleteSucceeded =>
        \E i \in 1..Len(pre.Tasks) :
            /\ pre.Tasks[i].ID = call.id
            /\ Len(list.Tasks) = Len(pre.Tasks)
            /\ list.Tasks[i].Completed = TRUE
            /\ list.Tasks[i].ID = pre.Tasks[i].ID
            /\ list.Tasks[i].Description = pre.Tasks[i].Description
            /\ list.Tasks[i].CreatedAt = pre.Tasks[i].CreatedAt
            /\ \A j \in 1..Len(pre.Tasks) : j # i => list.Tasks[j] = pre.Tasks[j]
            /\ list.NextID = pre.NextID
            /\ list.TasksNil = pre.TasksNil

\* the last of three tasks completed while the first two are not
C11_Witness ==
    /\ CompleteSucceeded
    /\ Len(pre.Tasks) = 3
    /\ pre.Tasks[3].ID = call.id
    /\ ~pre.Tasks[1].Completed
    /\ ~pre.Tasks[2].Completed
    /\ ~pre.Tasks[3].Completed

----------------------------------------------------------------------------
(* C12 *)

\* C12: CompleteTask(id) that follows a successful CompleteTask(id) is not
\* refused, it reaches Save and fails only when Save does, and when it
\* succeeds the collection is the one the first call left; so it is after
\* any number of such calls.
C12_CompleteIdempotent ==
    /\ [][(CompleteSucceeded /\ call'.op = "CompleteTask" /\ call'.id = call.id)
            => /\ call'.saves = 1
               /\ (call'.err = NoError \/ Is(call'.err, ErrStorageWrite))]_vars
    /\ [][(/\ CompleteSucceeded
           /\ call'.op = "CompleteTask"
           /\ call'.id = call.id
           /\ call'.err = NoError)
            => list' = list]_vars

\* a second successful CompleteTask of one of two tasks
C12_Witness ==
    /\ CompleteSucceeded
    /\ Len(pre.Tasks) >= 2
    /\ \E i \in 1..Len(pre.Tasks) : pre.Tasks[i].ID = call.id /\ pre.Tasks[i].Completed
    /\ list = pre

----------------------------------------------------------------------------
(* C13 *)

DeleteSucceeded == call.op = "DeleteTask" /\ call.err = NoError

C13_ReachRetry ==
    /\ call.op = "CompleteTask"
    /\ call.id \in deleted
    /\ Len(list.Tasks) = 2

----------------------------------------------------------------------------
(* C14 *)

IDsOf(tasks) == { tasks[i].ID : i \in 1..Len(tasks) }

\* C14: from an absent backing file, whatever calls succeeded or failed,
\* ListTasks returns the tasks added and not deleted, each once, in the
\* order of their creation: a task with a smaller id before one with a
\* greater id, and no later created_at before an earlier one.
C14_ListInCreationOrder ==
    call.op = "ListTasks" =>
        /\ IDsOf(call.out) = { assigned[i] : i \in 1..Len(assigned) } \ deleted
        /\ \A i, j \in 1..Len(call.out) :
                i < j => /\ call.out[i].ID < call.out[j].ID
                         /\ call.out[i].CreatedAt.wall <= call.out[j].CreatedAt.wall

\* two tasks listed after a third was deleted
C14_Witness ==
    /\ call.op = "ListTasks"
    /\ Len(call.out) = 2
    /\ deleted # {}

----------------------------------------------------------------------------
(* C15 *)

\* C15: ListTasks returns no error and a slice that is not nil, empty for
\* an empty collection, holding every task of the collection with its four
\* fields; it leaves the collection, next_id and the files as they were and
\* issues no Save.  The slice is a snapshot of its own: what the service
\* does later, the in-place shift of DeleteTask included, changes no
\* element seen through it, and a write of the caller into it changes no
\* task of the service.
C15_ListSnapshot ==
    /\ [](call.op = "ListTasks" =>
            /\ call.err = NoError
            /\ call.saves = 0
            /\ call.out = pre.Tasks
            /\ list = pre
            /\ file = preFile)
    /\ [](snap.held =>
            /\ ~snap.nil
            /\ snap.cells = snap.ret)
    /\ [][KeepListTasks => (snap'.held /\ ~snap'.nil /\ snap'.cells = list.Tasks)]_vars
    /\ [][CallerWrites => list' = list]_vars

\* the first of two tasks deleted while a caller keeps the slice of both
C15_Witness ==
    /\ snap.held
    /\ Len(snap.cells) = 2
    /\ snap.cells = pre.Tasks
    /\ DeleteSucceeded
    /\ pre.Tasks[1].ID = call.id

\* the caller has written the slice it keeps
C15_ReachCallerWrite ==
    /\ snap.held
    /\ call.op = "ListTasks"
    /\ Len(snap.cells) = 2
    /\ snap.cells # list.Tasks

----------------------------------------------------------------------------
(* C16 *)

\* the last call died inside its Save
SaveKilled == call.err = <<Killed>>

\* C16: with one writer, when Save is cut short by the death of the process
\* or fails (while the temporary file is written, between the write and the
\* rename, at the rename), the backing file holds the whole content it had
\* before the call or the whole content being saved, never a part of it,
\* and a service built afterwards does not fail with an invalid format.
C16_SaveAtomic ==
    /\ (SaveKilled \/ SaveFailed) =>
            /\ Len(saving) = 1
            /\ (file = preFile \/ file = Marshal(saving[1]))
    /\ file.kind # "corrupt"
    /\ call.op = "NewTodoList" => (up /\ ~Is(call.err, ErrInvalidJSON))

\* the process died between the write of the temporary file and the rename,
\* over a backing file of an earlier Save
C16_Witness ==
    /\ SaveKilled
    /\ preFile.kind = "json"
    /\ file = preFile
    /\ tmp = Marshal(saving[1])
    /\ tmp # file

\* a service built after the process died while writing the temporary file
C16_ReachRestart ==
    /\ call.op = "NewTodoList"
    /\ up
    /\ tmp.kind = "corrupt"
    /\ Len(list.Tasks) >= 1

----------------------------------------------------------------------------
(* C17 *)

\* C17: whenever Save returns an error, the error is a storage write error
\* and no temporary file is left behind: as no behaviour starts with one and
\* a successful Save renames its own away, none exists after a failed Save.
C17_SaveErrorLeavesNoTemp ==
    SaveFailed =>
        /\ Is(call.err, ErrStorageWrite)
        /\ tmp.kind = "absent"

----------------------------------------------------------------------------
(* C18 *)

\* a Load of the file a successful Save has written
LoadedAfterSave == call.op = "Load" /\ saving # <<>>

\* C18: for any TaskList, a successful Save followed by Load returns a list
\* with the same next_id and the same tasks in the same order, equal in id,
\* description, completed and created_at; so Load, Save, Load of a file that
\* Load accepts gives the list of the first Load.
C18_RoundTrip ==
    LoadedAfterSave =>
        /\ call.err = NoError
        /\ TaskListEqual(list, saving[1])

\* the same for lists whose descriptions are valid UTF-8
C18_ValidTextRoundTrip ==
    (/\ LoadedAfterSave
     /\ \A i \in 1..Len(saving[1].Tasks) :
            \A k \in 1..Len(saving[1].Tasks[i].Description) :
                saving[1].Tasks[i].Description[k] # InvalidByte) =>
        /\ call.err = NoError
        /\ TaskListEqual(list, saving[1])

\* Load, Save, Load of a file whose strings hold escapes and raw bytes
C18_ReachLoadSaveLoad ==
    /\ LoadedAfterSave
    /\ boot.kind = "json"
    /\ Len(list.Tasks) = 2

----------------------------------------------------------------------------
(* C19 *)

\* C19: Load of a location where no file exists returns no error and a
\* list with an empty, non-nil task sequence and next_id 1, and writes
\* nothing at the location; the service built on it gives id 1 to its first
\* task.
C19_AbsentFileLoadsEmpty ==
    /\ (call.op = "NewTodoList" /\ preFile.kind = "absent") =>
            /\ up
            /\ call.err = NoError
            /\ list.Tasks = <<>>
            /\ ~list.TasksNil
            /\ list.NextID = 1
            /\ file.kind = "absent"
    /\ (AddSucceeded /\ preFile.kind = "absent") => call.ret[1].ID = 1

\* the first task added by a service that was built again on the missing
\* file, after an AddTask whose Save failed
C19_Witness ==
    /\ AddSucceeded
    /\ preFile.kind = "absent"
    /\ tmp.kind = "absent"
    /\ clock >= 2

\* a service built on a missing file beside a temporary file left behind
C19_ReachRestart ==
    /\ call.op = "NewTodoList"
    /\ preFile.kind = "absent"
    /\ tmp.kind = "corrupt"

----------------------------------------------------------------------------
(* C20 *)

\* C20: when the backing file exists and is no TaskList in JSON, Load fails
\* with an invalid format error; when reading it fails for another reason
\* than its absence, Load fails with a storage read error; NewTodoList then
\* returns an error in which errors.Is still finds that cause, and no
\* service.
C20_LoadFailureKinds ==
    /\ (call.op = "NewTodoList" /\ preFile.kind = "corrupt") =>
            /\ Is(Load(preFile).err, ErrInvalidJSON)
            /\ Is(call.err, ErrInvalidJSON)
            /\ ~Is(call.err, ErrStorageRead)
            /\ ~up
    /\ (call.op = "NewTodoList" /\ preFile.kind = "unreadable") =>
            /\ Is(Load(preFile).err, ErrStorageRead)
            /\ Is(call.err, ErrStorageRead)
            /\ ~Is(call.err, ErrInvalidJSON)
            /\ ~up

\* NewTodoList on a file that does not parse
C20_Witness ==
    /\ call.op = "NewTodoList"
    /\ preFile.kind = "corrupt"
    /\ call.err # NoError

\* NewTodoList on a file that cannot be read
C20_ReachUnreadable ==
    /\ call.op = "NewTodoList"
    /\ preFile.kind = "unreadable"
    /\ call.err # NoError

----------------------------------------------------------------------------
(* C21 *)

\* C21: whenever Load succeeds, the task sequence of the list it returns is
\* a sequence, possibly empty, and not nil, also when the JSON object has no
\* tasks field or a null one.
C21_LoadedTasksNotNil ==
    (call.op = "Load" /\ call.err = NoError) => ~list.TasksNil

\* Load of a file found with a null tasks field
C21_Witness ==
    /\ call.op = "Load"
    /\ call.err = NoError
    /\ file = boot
    /\ file.kind = "json"
    /\ file.tasksNull
    /\ list.Tasks = <<>>

\* Load of the file Save wrote from a list with a nil slice
C21_ReachSavedNil ==
    /\ call.op = "Load"
    /\ saving # <<>>
    /\ saving[1].TasksNil
    /\ file.tasksNull

----------------------------------------------------------------------------
(* C22 *)

\* C22: with two processes saving to the same backing file at the same
\* time, under every interleaving of their writes of the temporary file and
\* their renames, a reader of the backing file finds at every moment a whole
\* serialised list: the content loaded or the data of one of the Saves.
C22_ReadersSeeWholeFile ==
    writers.proc # <<>> =>
        \/ file = boot
        \/ \E p \in Procs :
              /\ writers.proc[p].pc # "loaded"
              /\ file = Marshal(writers.proc[p].list)

----------------------------------------------------------------------------
(* C23 *)

\* the Saves of both processes returned nil
BothSaved ==
    /\ writers.proc # <<>>
    /\ \A p \in Procs : writers.proc[p].pc = "returned" /\ writers.proc[p].err = NoError

\* C23: when two processes have loaded the same list, each applies one
\* mutation and both Saves succeed, the backing file is the list of the
\* process whose Save returned last, as that process had it: nothing of the
\* other one's mutation is merged in and neither gets an error.
C23_LastSaveWins ==
    BothSaved =>
        /\ file = Marshal(writers.proc[writers.returned[2]].list)
        /\ Load(file).list.Tasks =
              [i \in 1..Len(writers.proc[writers.returned[2]].list.Tasks) |->
                  DecodeTask(EncodeTask(writers.proc[writers.returned[2]].list.Tasks[i]))]

\* process 2 completed the task, then process 1 saved its added task
C23_Witness ==
    /\ BothSaved
    /\ writers.returned = <<2, 1>>
    /\ Len(writers.proc[1].list.Tasks) = 2
    /\ Len(writers.proc[2].list.Tasks) = 1
    /\ writers.proc[2].list.Tasks[1].Completed
    /\ ~Load(file).list.Tasks[1].Completed

----------------------------------------------------------------------------
(* C24 *)

\* the arguments of the last mutating call pass the validation of its
\* handler: a description with a character that is not whitespace, a
\* positive id that a task of the collection has
PassedValidation ==
    \/ call.op = "AddTask" /\ ~OnlyWhitespace(call.description)
    \/ IdCall /\ call.id > 0 /\ HasID(pre.Tasks, call.id)

\* the last call issued no Save: none is recorded and the backing file is as
\* it was
IssuedNoSave == call.saves = 0 /\ saving = <<>> /\ file = preFile

\* C24: NewTodoList issues one Load, whose result is the collection, and no
\* Save; a mutating call that passes validation issues exactly one Save,
\* also when that Save fails (no retry); a call that fails validation and
\* ListTasks issue no Save.
C24_OneLoadOneSave ==
    /\ call.op = "NewTodoList" =>
          /\ IssuedNoSave
          /\ up => list = Load(file).list
    /\ (Mutating /\ PassedValidation) => (call.saves = 1 /\ Len(saving) = 1)
    /\ (Mutating /\ ~PassedValidation) => IssuedNoSave
    /\ call.op = "ListTasks" => IssuedNoSave

\* a Save failed and the call returned after that one Save
C24_Witness ==
    /\ call.op = "CompleteTask"
    /\ PassedValidation
    /\ saveErr # NoError
    /\ call.saves = 1

\* a restart after two successful calls
C24_ReachRestart ==
    /\ call.op = "NewTodoList"
    /\ Len(list.Tasks) = 1
    /\ list.Tasks[1].Completed

----------------------------------------------------------------------------
(* C25 *)

\* C25: a mutating call whose Save failed returns an error that is the
\* storage write failure (errors.Is ErrStorageWrite) and no task; no
\* mutating call returns nil while its Save failed.
C25_SaveFailureReported ==
    (Mutating /\ saving # <<>> /\ saveErr # NoError) =>
        /\ call.err # NoError
        /\ Is(call.err, ErrStorageWrite)
        /\ call.ret = <<>>

\* the Save of a DeleteTask failed
C25_Witness ==
    /\ call.op = "DeleteTask"
    /\ saving # <<>>
    /\ saveErr # NoError
    /\ Is(saveErr, ErrStorageWrite)

----------------------------------------------------------------------------
(* C26 *)

\* next_id is above the id of every task of the collection and above every
\* id a successful AddTask has returned, deleted ones included
NextIDAboveAll ==
    /\ \A i \in 1..Len(list.Tasks) : list.Tasks[i].ID < list.NextID
    /\ \A k \in 1..Len(assigned) : assigned[k] < list.NextID

\* C26: from an absent backing file, next_id is in every state greater than
\* the id of every task in the collection and of every task a successful
\* AddTask ever returned, and from the return of one call to the return of
\* the next call (or the next start of the service) it never decreases.
C26_NextIDAboveAll ==
    /\ [](boot.kind = "absent" => NextIDAboveAll)
    /\ [][boot.kind = "absent" => list'.NextID >= list.NextID]_vars

\* an AddTask whose Save failed, after a task that was added had been deleted
C26_Witness ==
    /\ boot.kind = "absent"
    /\ call.op = "AddTask"
    /\ SaveFailed
    /\ deleted # {}
    /\ list.NextID = 3
    /\ Len(assigned) = 2

\* the service was started again after an id had been assigned and deleted
C26_ReachRestart ==
    /\ call.op = "NewTodoList"
    /\ up
    /\ list.Tasks = <<>>
    /\ list.NextID = 2

----------------------------------------------------------------------------
(* C27 *)

\* the service was initialised from an absent file or from a backing file
\* whose next_id is positive
PositiveBoot ==
    \/ boot.kind = "absent"
    \/ boot.kind = "json" /\ boot.next_id >= 1

\* C27 as stated: every id AddTask assigns is positive, from an absent file
\* or any backing file that Load parses.
C27_AssignedIdPositive == AddSucceeded => call.ret[1].ID > 0

\* C27 amended: every id AddTask assigns is positive when the service was
\* initialised from an absent file or from a backing file that Load parses
\* and whose next_id is positive.
C27_AssignedIdPositiveFromPositive == (AddSucceeded /\ PositiveBoot) => call.ret[1].ID > 0

\* an id assigned after a load of a file with a task and next_id 1
C27_Witness ==
    /\ AddSucceeded
    /\ boot.kind = "json"
    /\ boot.next_id = 1
    /\ Len(boot.tasks) = 1
    /\ call.ret[1].ID = 1
    /\ list.NextID = 2

----------------------------------------------------------------------------
(* C28 *)

\* the task b is the task a with the id, description and creation instant
\* that a has
SameCreation(a, b) ==
    /\ a.ID = b.ID
    /\ a.Description = b.Description
    /\ TimeEqual(a.CreatedAt, b.CreatedAt)

\* C28: no operation changes the id, the description or created_at of a
\* task: across every call on any task, successful or with a failed Save and
\* its rollback, and across a restart, a task that is in the collection
\* before and after has the three fields it had; a task taken out and put
\* back by a failed DeleteTask has all its fields.
C28_FieldsImmutable ==
    [][\A i \in 1..Len(list.Tasks), j \in 1..Len(list'.Tasks) :
            list.Tasks[i].ID = list'.Tasks[j].ID =>
                /\ SameCreation(list.Tasks[i], list'.Tasks[j])
                /\ call'.op = "DeleteTask" => TaskEqual(list.Tasks[i], list'.Tasks[j])]_vars

\* a failed DeleteTask put the completed first task of two back
C28_Witness ==
    /\ call.op = "DeleteTask"
    /\ SaveFailed
    /\ Len(list.Tasks) = 2
    /\ call.id = list.Tasks[1].ID
    /\ list.Tasks[1].Completed
    /\ list.Tasks[1].Description = <<" ", "b", " ">>
    /\ list = pre

\* a CompleteTask that failed on another task than the first
C28_ReachCompleteRollback ==
    /\ call.op = "CompleteTask"
    /\ SaveFailed
    /\ Len(list.Tasks) = 2
    /\ call.id = list.Tasks[2].ID

----------------------------------------------------------------------------
(* C29 *)

\* C29: from an absent backing file, every task of the collection has in
\* every state a description with at least one character that is not
\* whitespace, so that it is non-empty after trimming.
C29_DescriptionsNotBlank ==
    boot.kind = "absent" =>
        \A i \in 1..Len(list.Tasks) :
            /\ ~OnlyWhitespace(list.Tasks[i].Description)
            /\ TrimSpace(list.Tasks[i].Description) # <<>>

\* whitespace descriptions were refused and a task is in the collection
C29_Witness ==
    /\ boot.kind = "absent"
    /\ call.op = "AddTask"
    /\ call.description = <<"\t", " ">>
    /\ call.err = <<ErrEmptyDescription>>
    /\ Len(list.Tasks) = 2

----------------------------------------------------------------------------
(* C30 *)

\* C30: in the memory of one service the completed flag of a task never goes
\* from true to false while the task exists: a task that was completed when
\* a call began is completed when the call returns, Saves failing or not.
C30_CompletedNeverReset ==
    (Mutating \/ call.op = "ListTasks") =>
        \A i \in 1..Len(pre.Tasks), j \in 1..Len(list.Tasks) :
            (pre.Tasks[i].ID = list.Tasks[j].ID /\ pre.Tasks[i].Completed)
                => list.Tasks[j].Completed

----------------------------------------------------------------------------
(* C31 *)

\* the Save of the last mutating call returned an error
SaveReturnedError == Mutating /\ saving # <<>> /\ saveErr # NoError

\* the backing file is what it was when the call began
FailedSaveKeptFile == SaveReturnedError => file = preFile

\* C31: with one writer, a Save that returns an error leaves the backing
\* file as it was before the Save began, and after the rollback of the
\* service memory and file agree again when they agreed before the call.
C31_FailedSaveKeepsAgreement ==
    /\ FailedSaveKeptFile
    /\ (SaveReturnedError /\ TaskListEqual(pre, Load(preFile).list))
            => TaskListEqual(list, Load(file).list)

----------------------------------------------------------------------------
(* C32 *)

\* the call of process p returned a storage error, and the list it handed
\* to Save is its own: not what the file held at the start and not the list
\* of the other process
FailedOwnSave(p) ==
    /\ writers.proc[p].pc = "returned"
    /\ Is(writers.proc[p].err, ErrStorageWrite)
    /\ Marshal(writers.proc[p].list) # boot
    /\ \A q \in Procs \ {p} : writers.proc[q].list # writers.proc[p].list

\* C32: with two processes mutating the same backing file at the same time
\* through the same temporary path, a call that has returned a storage error
\* has not made its mutation durable: the backing file is not the
\* collection that the failed call handed to Save.
C32_FailedCallNotDurable ==
    writers.proc # <<>> =>
        \A p \in Procs : FailedOwnSave(p) => file # Marshal(writers.proc[p].list)

----------------------------------------------------------------------------
(* C33 *)

\* the collection l is what the backing file f holds: no task and next_id 1
\* for the absent file, else the ids, flags and instants of its tasks in
\* order and its next_id
HoldsWhatFileHolds(l, f) ==
    IF f.kind = "absent" THEN l.Tasks = <<>> /\ l.NextID = 1
    ELSE /\ f.kind = "json"
         /\ l.NextID = f.next_id
         /\ Len(l.Tasks) = Len(f.tasks)
         /\ \A i \in 1..Len(l.Tasks) :
                /\ l.Tasks[i].ID = f.tasks[i].id
                /\ l.Tasks[i].Completed = f.tasks[i].completed
                /\ l.Tasks[i].CreatedAt.wall = f.tasks[i].created_at

\* C33: Load returns what the backing file holds whatever is at the
\* temporary path: with a temporary file left by a crashed or failed Save
\* (empty, partial, or the whole data of that Save) a start of the service
\* succeeds with the collection of the backing file, and a later Save that
\* succeeds writes its own list to the backing file and leaves no temporary
\* file.
C33_LeftoverTempIgnored ==
    [][tmp.kind # "absent" =>
          /\ call'.op = "NewTodoList" =>
                (up' /\ call'.err = NoError /\ HoldsWhatFileHolds(list', file))
          /\ (Mutating' /\ saving' # <<>> /\ call'.err = NoError) =>
                (HoldsWhatFileHolds(saving'[1], file') /\ tmp'.kind = "absent")]_vars

\* the service started beside the whole data of a CompleteTask that crashed
\* before its rename
C33_Witness ==
    /\ call.op = "NewTodoList"
    /\ up
    /\ file.kind = "json"
    /\ tmp.kind = "json"
    /\ Len(list.Tasks) = 1
    /\ ~list.Tasks[1].Completed
    /\ Len(tmp.tasks) = 1
    /\ tmp.tasks[1].completed

----------------------------------------------------------------------------
(* C34 *)

\* the tasks of the sequence whose id is not positive, in order
NotPositive(tasks) ==
    LET Test(t) == t.ID <= 0
    IN  SelectSeq(tasks, Test)

\* C34: CompleteTask(id) and DeleteTask(id) with id <= 0 fail with
\* ErrInvalidID before any lookup, also when a task of the loaded collection
\* has that id: no Save is issued and collection and file are unchanged; and
\* no CompleteTask or DeleteTask, whatever its id, changes a task whose id
\* is not positive.
C34_NonPositiveIdRejected ==
    /\ (IdCall /\ call.id <= 0) =>
          /\ call.err = <<ErrInvalidID>>
          /\ call.saves = 0
          /\ saving = <<>>
          /\ list = pre
          /\ file = preFile
    /\ IdCall => NotPositive(list.Tasks) = NotPositive(pre.Tasks)

\* DeleteTask(0) on a collection loaded with a task of id 0
C34_Witness ==
    /\ call.op = "DeleteTask"
    /\ call.id = 0
    /\ HasID(pre.Tasks, 0)
    /\ call.err = <<ErrInvalidID>>
    /\ HasID(list.Tasks, 0)

\* the same for CompleteTask, the task left not completed
C34_ReachComplete ==
    /\ call.op = "CompleteTask"
    /\ call.id = 0
    /\ Len(list.Tasks) = 1
    /\ list.Tasks[1].ID = 0
    /\ ~list.Tasks[1].Completed

----------------------------------------------------------------------------
(* C35 *)

\* the backing file the process found is one that Load fails on
LoadFails == boot.kind \in {"corrupt", "unreadable"}

\* C35: when NewTodoList fails because Load fails, the process runs no
\* command and issues no Save: the last thing done is the failed
\* NewTodoList, of this or of a later invocation, and the backing file is as
\* it was found, with no temporary file beside it.
C35_FailedLoadRunsNothing ==
    LoadFails =>
        /\ call.op = "NewTodoList"
        /\ call.err # NoError
        /\ call.saves = 0
        /\ saving = <<>>
        /\ file = boot
        /\ tmp.kind = "absent"

\* the process found a file that is not JSON and stopped at NewTodoList
C35_Witness ==
    /\ boot.kind = "corrupt"
    /\ call.op = "NewTodoList"
    /\ Is(call.err, ErrInvalidJSON)
    /\ ~up
    /\ file = boot

\* the same for a file that cannot be read
C35_ReachUnreadable ==
    /\ boot.kind = "unreadable"
    /\ Is(call.err, ErrStorageRead)
    /\ ~up

----------------------------------------------------------------------------
(* C36 *)

\* the text is an integer in decimal: digits, after at most one sign
IntegerText(s) ==
    \/ Len(s) >= 1 /\ \A i \in 1..Len(s) : IsDigit(s[i])
    \/ Len(s) >= 2 /\ s[1] \in {"+", "-"} /\ \A i \in 2..Len(s) : IsDigit(s[i])

\* the word is the command name, in any case of its letters
Names(word, name) == ToLower(word) = name

\* a command line with an unknown command name, add without a description,
\* or done or delete without exactly one argument that is an integer
Malformed(a) ==
    /\ a # <<>>
    /\ \/ \A name \in {CmdAdd, CmdList, CmdDone, CmdDelete, CmdHelp} : ~Names(a[1], name)
       \/ Names(a[1], CmdAdd) /\ Len(a) < 2
       \/ /\ Names(a[1], CmdDone) \/ Names(a[1], CmdDelete)
          /\ ~(Len(a) = 2 /\ IntegerText(a[2]))

\* the process has run the command of its command line
CommandRan == args # <<>> /\ call.op # "NewTodoList"

\* C36: a command line with an unknown command name, add without a
\* description, or done or delete without exactly one argument that parses
\* as an integer is rejected by ParseCommand with ErrInvalidCommand and no
\* operation of the service is called; a rejected command issues no Save
\* and changes nothing; CompleteTask and DeleteTask are called only when
\* the one argument of done or delete is an integer.
C36_MalformedCommandRejected ==
    CommandRan =>
        /\ Malformed(args[1]) =>
              /\ call.op = "ParseCommand"
              /\ Is(call.err, ErrInvalidCommand)
        /\ call.op = "ParseCommand" => (IssuedNoSave /\ CallChangedNothing)
        /\ IdCall =>
              /\ Len(args[1]) = 2
              /\ IntegerText(args[1][2])

\* done with an argument that is no integer was rejected, a task being there
C36_Witness ==
    /\ CommandRan
    /\ args[1] = <<CmdDone, <<"1", "x">>>>
    /\ call.op = "ParseCommand"
    /\ Is(call.err, ErrInvalidCommand)
    /\ Len(list.Tasks) = 1
    /\ ~list.Tasks[1].Completed

\* done with a signed integer reached CompleteTask
C36_ReachSigned ==
    /\ CommandRan
    /\ args[1] = << <<"D", "O", "N", "E">>, <<"+", "1">> >>
    /\ call.op = "CompleteTask"
    /\ call.id = 1
    /\ call.err = NoError

\* add with three arguments reached AddTask with the joined description
C36_ReachJoined ==
    /\ CommandRan
    /\ args[1] = <<CmdAdd, <<>>, <<"b">>, <<>>>>
    /\ AddSucceeded
    /\ call.description = <<" ", "b", " ">>

----------------------------------------------------------------------------
(* C37 *)

\* the number of tasks of the sequence that have the id
CountID(tasks, id) == Cardinality({ i \in 1..Len(tasks) : tasks[i].ID = id })

\* the least position of a task with the id, in a sequence that has one
FirstWithID(tasks, id) ==
    CHOOSE i \in 1..Len(tasks) :
        tasks[i].ID = id /\ \A j \in 1..Len(tasks) : tasks[j].ID = id => i <= j

\* the call was given a positive id that a task of the collection had
FoundID == IdCall /\ call.id > 0 /\ HasID(pre.Tasks, call.id)

\* C37: when several tasks of the loaded collection have the same id,
\* CompleteTask(id) and DeleteTask(id) act on the first of them in sequence
\* order only: CompleteTask leaves every other task as it was, DeleteTask
\* removes that one and keeps the others in order; the id is reported as not
\* found only when no task has it, so after one DeleteTask per duplicate.
C37_FirstDuplicateOnly ==
    /\ (FoundID /\ call.op = "CompleteTask") =>
          /\ Len(list.Tasks) = Len(pre.Tasks)
          /\ \A i \in 1..Len(pre.Tasks) :
                i # FirstWithID(pre.Tasks, call.id) => list.Tasks[i] = pre.Tasks[i]
          /\ call.err = NoError => list.Tasks[FirstWithID(pre.Tasks, call.id)].Completed
    /\ (FoundID /\ DeleteSucceeded) =>
          /\ Len(list.Tasks) = Len(pre.Tasks) - 1
          /\ \A i \in 1..Len(list.Tasks) :
                list.Tasks[i] = IF i < FirstWithID(pre.Tasks, call.id)
                                THEN pre.Tasks[i] ELSE pre.Tasks[i + 1]
          /\ CountID(list.Tasks, call.id) = CountID(pre.Tasks, call.id) - 1
    /\ (IdCall /\ call.id > 0) =>
          (call.err = <<ErrTaskNotFound>> <=> CountID(pre.Tasks, call.id) = 0)

\* DeleteTask(1) took the completed first of two tasks with id 1 and left
\* the second
C37_Witness ==
    /\ DeleteSucceeded
    /\ call.id = 1
    /\ CountID(pre.Tasks, 1) = 2
    /\ pre.Tasks[1].Completed
    /\ ~pre.Tasks[2].Completed
    /\ list.Tasks = <<pre.Tasks[2]>>

\* CompleteTask(1) marked the first of two tasks with id 1
C37_ReachComplete ==
    /\ CompleteSucceeded
    /\ call.id = 1
    /\ CountID(pre.Tasks, 1) = 2
    /\ list.Tasks[1].Completed
    /\ ~list.Tasks[2].Completed

\* id 1 is not found after both tasks with id 1 were deleted
C37_ReachNotFound ==
    /\ boot.kind = "json"
    /\ Len(boot.tasks) = 2
    /\ boot.tasks[1].id = 1
    /\ boot.tasks[2].id = 1
    /\ call.op = "DeleteTask"
    /\ call.id = 1
    /\ call.err = <<ErrTaskNotFound>>
    /\ assigned = <<>>

====
